---- MODULE Spec2Model ----
(***************************************************************************)
(* Model of the Monte Carlo handout (src/unnamed/part_000):                *)
(*   - get_mc_estimate (mean + variance version), statement by statement,  *)
(*   - the uncertainty band (l, u) computed from its result,               *)
(*   - the random field g(x, xi, sigma),                                   *)
(*   - the median and percentiles of a batch of solver outputs.            *)
(* Floating point numbers are modelled as exact rationals <<num, den>>;    *)
(* objective values are drawn from small sets of integers.                 *)
(***************************************************************************)
EXTENDS Integers, Sequences, FiniteSets, TLC

VARIABLES
    cell,           \* the notebook cell that runs: "mc", "exceed" (the
                    \* run with func=h), "field" or "summary"
    func,           \* the objective: sample -> value, or the failure it raises
    k,              \* number of calls of get_mc_estimate made so far
    pc,             \* position inside / after get_mc_estimate
    max_n,          \* argument max_n of the current call
    I, V,           \* local arrays of get_mc_estimate
    s, s2,          \* local accumulators of get_mc_estimate
    range_it,       \* items already taken from range(max_n)
    n, x, y,        \* loop variable, current sample, current objective value
    rng,            \* state of the sampler: samples drawn since seeding
    sampler_calls,  \* calls of sampler made by the current call
    func_calls,     \* calls of func made by the current call
    writes,         \* per array and index: number of stores so far
    exc,            \* the exception that left get_mc_estimate, if any
    traj,           \* per call: the (I, V) the caller received, or None
    all_ns, l, u,   \* the band computed by the plotting cell
    gx, xi, sigma,  \* arguments of g
    gpc,            \* "call" before g is applied, "returned" after
    g_ret,          \* what the call of g produced
    data,           \* the batch: realization -> position -> value
    pct,            \* the requested percentile q
    mu, mu_q,       \* median and q-th percentile, per position
    spc             \* position in the summary cells

vars == <<cell, func, k, pc, max_n, I, V, s, s2, range_it, n, x, y, rng,
          sampler_calls, func_calls, writes, exc, traj, all_ns, l, u,
          gx, xi, sigma, gpc, g_ret, data, pct, mu, mu_q, spc>>

svars == <<data, pct, mu, mu_q, spc>>

gvars == <<gx, xi, sigma, gpc, g_ret>>

----------------------------------------------------------------------------
(* Bounds of the model *)

MaxN == 3           \* largest max_n passed to get_mc_estimate
NumRuns == 2        \* calls of get_mc_estimate in one session
MaxD == 3           \* largest length of the coefficient vector xi
MaxK == 3           \* largest number of realizations in a batch

(* The sampler's stream is longer than any run consumes *)
StreamLen == MaxN + 1

(* Values the objective may return, and failures it may raise *)
YValues == {-1, 0, 2}
Failures == {"SolverDiverged"}

(* What one evaluation of the objective does: return a value or raise *)
Returns(v) == [raises |-> FALSE, value |-> v, error |-> ""]
Raises(e) == [raises |-> TRUE, value |-> 0, error |-> e]
Outcomes == {Returns(v) : v \in YValues} \cup {Raises(e) : e \in Failures}

(* Coefficients and scales tried for g *)
XiValues == {-1, 0, 1}
SigmaValues == {-1, 0, 1, 2}

(* Placeholders: an unbound integer, no exception, an unwritten array cell
   and Python's None (pairs that are no numbers), a call that handed
   nothing to its caller *)
Unbound == -1
NoExc == ""
Uninit == <<0, 0>>
PyNone == <<0, -1>>
NoTraj == [returned |-> FALSE, I |-> <<>>, V |-> <<>>]

----------------------------------------------------------------------------
(* Exact rational arithmetic standing for Python floats *)

Abs(a) == IF a < 0 THEN -a ELSE a

RECURSIVE GCD(_, _)
GCD(a, b) == IF b = 0 THEN a ELSE GCD(b, a % b)

(* a quotient in lowest terms; anything computed from an unwritten cell
   is again no number *)
Rat(p, q) ==
    IF q = 0 THEN <<0, 0>>
    ELSE LET sg == IF q < 0 THEN -1 ELSE 1
             gd == GCD(Abs(p), Abs(q))
         IN  <<(sg * p) \div gd, (sg * q) \div gd>>

FromInt(a) == <<a, 1>>
Zero == FromInt(0)

RAdd(a, b) == Rat(a[1] * b[2] + b[1] * a[2], a[2] * b[2])
RSub(a, b) == Rat(a[1] * b[2] - b[1] * a[2], a[2] * b[2])
RMul(a, b) == Rat(a[1] * b[1], a[2] * b[2])
RDiv(a, b) == Rat(a[1] * b[2], a[2] * b[1])
RNeg(a) == <<-a[1], a[2]>>
RSq(a) == RMul(a, a)
RLeq(a, b) == a[1] * b[2] <= b[1] * a[2]
IsNumber(a) == a[2] > 0

(* Square roots are kept symbolic: [c, r] stands for c * sqrt(r), r >= 0 *)
sqrt(q) == [c |-> FromInt(1), r |-> q]
SurdMul(a, b) == [c |-> RMul(a.c, b.c), r |-> RMul(a.r, b.r)]
ScalarOverSurd(a, sd) == [c |-> RDiv(a, RMul(sd.c, sd.r)), r |-> sd.r]
SurdSq(sd) == RMul(RSq(sd.c), sd.r)
(* base - sd and base + sd, kept as  a + c * sqrt(r) *)
Minus(base, sd) == [a |-> base, c |-> RNeg(sd.c), r |-> sd.r]
Plus(base, sd) == [a |-> base, c |-> sd.c, r |-> sd.r]

----------------------------------------------------------------------------
(* get_mc_estimate, lines 239-265 *)

(* variant: the loop runs once more than asked *)
range_inclusive(m) == 0 .. m

range(m) == 0 .. (m - 1)

(* variant: one cell too many is allocated *)
ndarray_extra(m) == [j \in 0 .. m |-> Uninit]

ndarray(m) == [j \in 0 .. (m - 1) |-> Uninit]

(* variant: the generator is not advanced, every draw is the first one *)
sampler_stuck(state) == 1

sampler(state) == state + 1

IsFailure(o) == o.raises

(* the caller seeds the generator and calls get_mc_estimate(max_n=m) *)
Call(m) ==
    /\ cell \in {"mc", "exceed"}
    /\ pc \in {"idle", "plotted"}
    /\ k < NumRuns
    /\ k' = k + 1
    /\ max_n' = m
    /\ I' = ndarray(m)
    /\ V' = ndarray(m)
    /\ s' = Zero
    /\ s2' = Zero
    /\ range_it' = 0
    /\ rng' = 0
    /\ sampler_calls' = 0
    /\ func_calls' = 0
    /\ writes' = [a \in {"I", "V"} |-> [j \in 0 .. (m - 1) |-> 0]]
    /\ pc' = "for"
    /\ UNCHANGED <<cell, func, n, x, y, exc, traj, all_ns, l, u>>
    /\ UNCHANGED gvars
    /\ UNCHANGED svars

(* for n in range(max_n): *)
ForNext ==
    /\ pc = "for"
    /\ IF range_it \in range(max_n)
          THEN /\ n' = range_it
               /\ range_it' = range_it + 1
               /\ pc' = "sample"
          ELSE /\ pc' = "return"
               /\ UNCHANGED <<n, range_it>>
    /\ UNCHANGED <<cell, func, k, max_n, I, V, s, s2, x, y, rng,
                   sampler_calls, func_calls, writes, exc, traj, all_ns, l, u>>
    /\ UNCHANGED gvars
    /\ UNCHANGED svars

(* x = sampler(dim) *)
Sample ==
    /\ pc = "sample"
    /\ x' = sampler(rng)
    /\ rng' = rng + 1
    /\ sampler_calls' = sampler_calls + 1
    /\ pc' = "eval"
    /\ UNCHANGED <<cell, func, k, max_n, I, V, s, s2, range_it, n, y,
                   func_calls, writes, exc, traj, all_ns, l, u>>
    /\ UNCHANGED gvars
    /\ UNCHANGED svars

(* y = func(x): a failure of func leaves get_mc_estimate as it is *)
(* variant: the failure is caught and re-raised as another error *)
Propagate_wrapped(e) == "RuntimeError"

Propagate(e) == e

(* h, lines 676-683: it reads T(x=0.5) from the solver and ends in pass,
   so it returns None *)
h(T) == PyNone

(* what func returns for a sample whose solver output is T: func is h in
   the last cell, the tabulated objective elsewhere *)
Objective(T) == IF cell = "exceed" THEN h(T) ELSE FromInt(T)

Eval ==
    /\ pc = "eval"
    /\ func_calls' = func_calls + 1
    /\ IF IsFailure(func[x])
          THEN /\ exc' = Propagate(func[x].error)
               /\ pc' = "raised"
               /\ UNCHANGED y
          ELSE /\ y' = Objective(func[x].value)
               /\ pc' = "sum"
               /\ UNCHANGED exc
    /\ UNCHANGED <<cell, func, k, max_n, I, V, s, s2, range_it, n, x, rng,
                   sampler_calls, writes, traj, all_ns, l, u>>
    /\ UNCHANGED gvars
    /\ UNCHANGED svars

(* acc += val *)
(* variant: plain assignment instead of += *)
Accumulate_assign(acc, val) == val

Accumulate(acc, val) == RAdd(acc, val)

(* s += y; a float plus None is a TypeError *)
UpdateSum ==
    /\ pc = "sum"
    /\ IF y = PyNone
          THEN /\ exc' = "TypeError"
               /\ pc' = "raised"
               /\ UNCHANGED s
          ELSE /\ s' = Accumulate(s, y)
               /\ pc' = "mean"
               /\ UNCHANGED exc
    /\ UNCHANGED <<cell, func, k, max_n, I, V, s2, range_it, n, x, y, rng,
                   sampler_calls, func_calls, writes, traj, all_ns, l, u>>
    /\ UNCHANGED gvars
    /\ UNCHANGED svars

(* I[n] = s / (n + 1) *)
(* variant: the sum is divided by the final sample count *)
MeanOf_final(sum, idx) == RDiv(sum, FromInt(max_n))

MeanOf(sum, idx) == RDiv(sum, FromInt(idx + 1))

RecordMean ==
    /\ pc = "mean"
    /\ IF n \in DOMAIN I
          THEN /\ I' = [I EXCEPT ![n] = MeanOf(s, n)]
               /\ writes' = [writes EXCEPT !["I"][n] = @ + 1]
               /\ pc' = "s2"
               /\ UNCHANGED exc
          ELSE /\ exc' = "IndexError"
               /\ pc' = "raised"
               /\ UNCHANGED <<I, writes>>
    /\ UNCHANGED <<cell, func, k, max_n, V, s, s2, range_it, n, x, y, rng,
                   sampler_calls, func_calls, traj, all_ns, l, u>>
    /\ UNCHANGED gvars
    /\ UNCHANGED svars

(* s2 += (y - I[n]) ** 2 *)
(* variant: the increment is centred on the previous mean *)
Centred_on_previous(val, means, idx) ==
    IF idx = 0 THEN RSq(val) ELSE RSq(RSub(val, means[idx - 1]))

Centred(val, means, idx) == RSq(RSub(val, means[idx]))

UpdateS2 ==
    /\ pc = "s2"
    /\ s2' = Accumulate(s2, Centred(y, I, n))
    /\ pc' = "var"
    /\ UNCHANGED <<cell, func, k, max_n, I, V, s, range_it, n, x, y, rng,
                   sampler_calls, func_calls, writes, exc, traj, all_ns, l, u>>
    /\ UNCHANGED gvars
    /\ UNCHANGED svars

(* V[n] = s2 / (n + 1) *)
(* variant: the sum of squares is stored undivided *)
VarOf_sum(sumsq, idx) == sumsq

VarOf(sumsq, idx) == RDiv(sumsq, FromInt(idx + 1))

RecordVar ==
    /\ pc = "var"
    /\ IF n \in DOMAIN V
          THEN /\ V' = [V EXCEPT ![n] = VarOf(s2, n)]
               /\ writes' = [writes EXCEPT !["V"][n] = @ + 1]
               /\ pc' = "for"
               /\ UNCHANGED exc
          ELSE /\ exc' = "IndexError"
               /\ pc' = "raised"
               /\ UNCHANGED <<V, writes>>
    /\ UNCHANGED <<cell, func, k, max_n, I, s, s2, range_it, n, x, y, rng,
                   sampler_calls, func_calls, traj, all_ns, l, u>>
    /\ UNCHANGED gvars
    /\ UNCHANGED svars

(* return I, V *)
Return ==
    /\ pc = "return"
    /\ traj' = [traj EXCEPT ![k] = [returned |-> TRUE, I |-> I, V |-> V]]
    /\ pc' = "returned"
    /\ UNCHANGED <<cell, func, k, max_n, I, V, s, s2, range_it, n, x, y, rng,
                   sampler_calls, func_calls, writes, exc, all_ns, l, u>>
    /\ UNCHANGED gvars
    /\ UNCHANGED svars

----------------------------------------------------------------------------
(* The plotting cell, lines 280-290 and 525-532 *)

(* variant: the sample counts start at zero *)
arange_from_zero(lo, hi) == [j \in 0 .. (hi - lo - 1) |-> j]

arange(lo, hi) == [j \in 0 .. (hi - lo - 1) |-> lo + j]

(* 2. / np.sqrt(all_ns) * np.sqrt(V), element by element *)
(* variant: the sample count is not square-rooted *)
HalfWidth_nosqrt(ns, var) ==
    SurdMul([c |-> Rat(2, ns), r |-> FromInt(1)], sqrt(var))

HalfWidth(ns, var) == SurdMul(ScalarOverSurd(FromInt(2), sqrt(FromInt(ns))), sqrt(var))

Plot ==
    /\ pc = "returned"
    /\ all_ns' = arange(1, max_n + 1)
    /\ l' = [j \in DOMAIN traj[k].I |->
                Minus(traj[k].I[j], HalfWidth(all_ns'[j], traj[k].V[j]))]
    /\ u' = [j \in DOMAIN traj[k].I |->
                Plus(traj[k].I[j], HalfWidth(all_ns'[j], traj[k].V[j]))]
    /\ pc' = "plotted"
    /\ UNCHANGED <<cell, func, k, max_n, I, V, s, s2, range_it, n, x, y, rng,
                   sampler_calls, func_calls, writes, exc, traj>>
    /\ UNCHANGED gvars
    /\ UNCHANGED svars

----------------------------------------------------------------------------
(* The random field g, lines 362-374.  Field values are kept in units of
   sqrt(2)/pi, the factor np.sqrt(2) / np.pi common to every term.        *)

Half == Rat(1, 2)

(* sin(q * pi) for the angles that occur: q a multiple of 1/6 whose sine
   is rational *)
SinPi(q) ==
    LET m == ((6 * q[1]) \div q[2]) % 12
    IN  CASE m \in {0, 6}  -> Zero
          [] m \in {1, 5}  -> Rat(1, 2)
          [] m = 3         -> FromInt(1)
          [] m \in {7, 11} -> Rat(-1, 2)
          [] m = 9         -> FromInt(-1)

(* xi[i] * np.sqrt(2) * sigma / (i - .5) / np.pi * np.sin((i - .5) * np.pi * x)
   at one point pt *)
(* variant: the coefficient enters squared *)
Term_squared(idx, pt, coef, sg) ==
    RMul(RDiv(RMul(FromInt(coef[idx] * coef[idx]), FromInt(sg)),
              RSub(FromInt(idx), Half)),
         SinPi(RMul(RSub(FromInt(idx), Half), pt)))

Term(idx, pt, coef, sg) ==
    RMul(RDiv(RMul(FromInt(coef[idx]), FromInt(sg)), RSub(FromInt(idx), Half)),
         SinPi(RMul(RSub(FromInt(idx), Half), pt)))

shape(a) == Cardinality(DOMAIN a)

(* variant: np.empty instead of np.zeros *)
zeros_empty(len) == [j \in 0 .. (len - 1) |-> Uninit]

zeros(len) == [j \in 0 .. (len - 1) |-> Zero]

xrange(m) == 0 .. (m - 1)

(* the loop  for i in xrange(d): res += ...  from index idx on *)
RECURSIVE gLoop(_, _, _, _, _)
gLoop(pts, coef, sg, acc, idx) ==
    IF idx \in xrange(shape(coef))
       THEN gLoop(pts, coef, sg,
                  [j \in DOMAIN acc |-> RAdd(acc[j], Term(idx, pts[j], coef, sg))],
                  idx + 1)
       ELSE acc

(* a call of g: it has no raise statement, so it always returns res *)
Returned(val) == [raised |-> FALSE, error |-> NoExc, value |-> val]
Raised(e) == [raised |-> TRUE, error |-> e, value |-> <<>>]

(* variant: the parameters are validated before the loop *)
g_validating(pts, coef, sg) ==
    IF shape(coef) = 0 \/ sg <= 0
       THEN Raised("InvalidParameter")
       ELSE Returned(gLoop(pts, coef, sg, zeros(shape(pts)), 0))

g(pts, coef, sg) == Returned(gLoop(pts, coef, sg, zeros(shape(pts)), 0))

ApplyG ==
    /\ cell = "field"
    /\ gpc = "call"
    /\ g_ret' = g(gx, xi, sigma)
    /\ gpc' = "returned"
    /\ UNCHANGED <<gx, xi, sigma>>
    /\ UNCHANGED <<cell, func, k, pc, max_n, I, V, s, s2, range_it, n, x, y,
                   rng, sampler_calls, func_calls, writes, exc, traj,
                   all_ns, l, u>>
    /\ UNCHANGED svars

----------------------------------------------------------------------------
(* The summary cells: np.median(data, axis=0), line 583, and
   np.percentile(data, q, axis=0), lines 614-615                          *)

(* variant: the axis is forgotten and the whole batch is pooled *)
Column_flat(batch, j) ==
    LET width == Cardinality(DOMAIN batch[0])
    IN  [c \in 0 .. (shape(batch) * width - 1) |->
            batch[c \div width][c % width]]

(* axis=0: the values of all realizations at position j *)
Column(batch, j) == [r \in DOMAIN batch |-> batch[r][j]]

(* variant: the values are used in the order they were collected *)
Sorted_unsorted(col) == col

(* the values of col in ascending order *)
Sorted(col) ==
    [c \in DOMAIN col |->
        CHOOSE v \in {col[r] : r \in DOMAIN col} :
            /\ Cardinality({r \in DOMAIN col : col[r] < v}) <= c
            /\ c < Cardinality({r \in DOMAIN col : col[r] <= v})]

Floor(a) == a[1] \div a[2]

(* numpy's default (linear) rule: virtual index vi = (k-1) q/100 into the
   sorted values, interpolating between its two neighbours *)
percentile1(col, qq) ==
    LET a  == Sorted(col)
        vi == RDiv(RMul(FromInt(shape(col) - 1), qq), FromInt(100))
        lo == Floor(vi)
        hi == IF lo + 1 < shape(col) THEN lo + 1 ELSE lo
    IN  RAdd(FromInt(a[lo]),
             RMul(RSub(vi, FromInt(lo)), FromInt(a[hi] - a[lo])))

(* the middle value, or the mean of the two middle values *)
median1(col) ==
    LET a == Sorted(col)
        len == shape(col)
    IN  IF len % 2 = 1
           THEN FromInt(a[(len - 1) \div 2])
           ELSE Rat(a[len \div 2 - 1] + a[len \div 2], 2)

Median ==
    /\ cell = "summary"
    /\ spc = "median"
    /\ mu' = [j \in DOMAIN data[0] |-> median1(Column(data, j))]
    /\ spc' = "percentile"
    /\ UNCHANGED <<data, pct, mu_q>>
    /\ UNCHANGED <<cell, func, k, pc, max_n, I, V, s, s2, range_it, n, x, y,
                   rng, sampler_calls, func_calls, writes, exc, traj,
                   all_ns, l, u>>
    /\ UNCHANGED gvars

Percentile ==
    /\ cell = "summary"
    /\ spc = "percentile"
    /\ mu_q' = [j \in DOMAIN data[0] |-> percentile1(Column(data, j), pct)]
    /\ spc' = "done"
    /\ UNCHANGED <<data, pct, mu>>
    /\ UNCHANGED <<cell, func, k, pc, max_n, I, V, s, s2, range_it, n, x, y,
                   rng, sampler_calls, func_calls, writes, exc, traj,
                   all_ns, l, u>>
    /\ UNCHANGED gvars

----------------------------------------------------------------------------

(* no batch collected *)
NoSummary ==
    /\ data = <<>> /\ pct = Zero /\ mu = <<>> /\ mu_q = <<>> /\ spc = "idle"

InitMC ==
    /\ cell = "mc"
    /\ func \in [1 .. StreamLen -> Outcomes]
    /\ k = 0
    /\ pc = "idle"
    /\ max_n = Unbound
    /\ I = <<>> /\ V = <<>> /\ s = Zero /\ s2 = Zero
    /\ range_it = 0 /\ n = Unbound /\ x = Unbound /\ y = Zero
    /\ rng = 0
    /\ sampler_calls = 0 /\ func_calls = 0
    /\ writes = [a \in {"I", "V"} |-> <<>>]
    /\ exc = NoExc
    /\ traj = [r \in 1 .. NumRuns |-> NoTraj]
    /\ all_ns = <<>> /\ l = <<>> /\ u = <<>>
    /\ gx = <<>> /\ xi = <<>> /\ sigma = 0
    /\ gpc = "idle" /\ g_ret = Returned(<<>>)
    /\ NoSummary

(* the last cell: the same session with func=h; func tabulates what the
   solver returns at x = 0.5 for each sample *)
InitE ==
    /\ cell = "exceed"
    /\ func \in [1 .. StreamLen -> Outcomes]
    /\ k = 0
    /\ pc = "idle"
    /\ max_n = Unbound
    /\ I = <<>> /\ V = <<>> /\ s = Zero /\ s2 = Zero
    /\ range_it = 0 /\ n = Unbound /\ x = Unbound /\ y = Zero
    /\ rng = 0
    /\ sampler_calls = 0 /\ func_calls = 0
    /\ writes = [a \in {"I", "V"} |-> <<>>]
    /\ exc = NoExc
    /\ traj = [r \in 1 .. NumRuns |-> NoTraj]
    /\ all_ns = <<>> /\ l = <<>> /\ u = <<>>
    /\ gx = <<>> /\ xi = <<>> /\ sigma = 0
    /\ gpc = "idle" /\ g_ret = Returned(<<>>)
    /\ NoSummary

(* Evaluation grids for g: points of [0,1] at which every mode has a
   rational sine *)
Grids == { [j \in 0 .. 0 |-> FromInt(1)],
           [j \in 0 .. 2 |-> CASE j = 0 -> Zero [] j = 1 -> Rat(1, 3) [] j = 2 -> FromInt(1)] }

Vectors == UNION { [0 .. (len - 1) -> XiValues] : len \in 0 .. MaxD }

InitG ==
    /\ cell = "field"
    /\ func = [j \in 1 .. StreamLen |-> Returns(0)]
    /\ k = 0
    /\ pc = "idle"
    /\ max_n = Unbound
    /\ I = <<>> /\ V = <<>> /\ s = Zero /\ s2 = Zero
    /\ range_it = 0 /\ n = Unbound /\ x = Unbound /\ y = Zero
    /\ rng = 0
    /\ sampler_calls = 0 /\ func_calls = 0
    /\ writes = [a \in {"I", "V"} |-> <<>>]
    /\ exc = NoExc
    /\ traj = [r \in 1 .. NumRuns |-> NoTraj]
    /\ all_ns = <<>> /\ l = <<>> /\ u = <<>>
    /\ gx \in Grids
    /\ xi \in Vectors
    /\ sigma \in SigmaValues
    /\ gpc = "call" /\ g_ret = Returned(<<>>)
    /\ NoSummary

(* Batches of 1..MaxK realizations over two positions, and the worked
   example 1, 2, 3, 4, 5 next to a position that never varies *)
Positions == {0, 1}
DataValues == {0, 1, 3}
Batches == UNION { [0 .. (len - 1) -> [Positions -> DataValues]] : len \in 1 .. MaxK }
ExampleBatch == [r \in 0 .. 4 |-> [j \in Positions |-> IF j = 0 THEN r + 1 ELSE 7]]

(* Percentiles asked for: the handout's 2.5 and 97.5, and a few others *)
QValues == {Zero, Rat(5, 2), FromInt(40), FromInt(50), Rat(195, 2), FromInt(100)}

InitS ==
    /\ cell = "summary"
    /\ func = [j \in 1 .. StreamLen |-> Returns(0)]
    /\ k = 0
    /\ pc = "idle"
    /\ max_n = Unbound
    /\ I = <<>> /\ V = <<>> /\ s = Zero /\ s2 = Zero
    /\ range_it = 0 /\ n = Unbound /\ x = Unbound /\ y = Zero
    /\ rng = 0
    /\ sampler_calls = 0 /\ func_calls = 0
    /\ writes = [a \in {"I", "V"} |-> <<>>]
    /\ exc = NoExc
    /\ traj = [r \in 1 .. NumRuns |-> NoTraj]
    /\ all_ns = <<>> /\ l = <<>> /\ u = <<>>
    /\ gx = <<>> /\ xi = <<>> /\ sigma = 0
    /\ gpc = "idle" /\ g_ret = Returned(<<>>)
    /\ data \in Batches \cup {ExampleBatch}
    /\ pct \in QValues
    /\ mu = <<>> /\ mu_q = <<>>
    /\ spc = "median"

Init == InitMC \/ InitE \/ InitG \/ InitS

Next ==
    \/ \E m \in 0 .. MaxN : Call(m)
    \/ ForNext
    \/ Sample
    \/ Eval
    \/ UpdateSum
    \/ RecordMean
    \/ UpdateS2
    \/ RecordVar
    \/ Return
    \/ Plot
    \/ ApplyG
    \/ Median
    \/ Percentile

Spec == Init /\ [][Next]_vars

----------------------------------------------------------------------------
(* Reference quantities, computed from the objective values y_1, y_2, ...
   of the stream (y_j = func[j].value) as the handout's formulas state them *)

Y(j) == func[j].value

RECURSIVE SumY(_)
SumY(m) == IF m = 0 THEN 0 ELSE SumY(m - 1) + Y(m)

(* I_n = (1/n) sum_{j<=n} y_j *)
RefMean(m) == Rat(SumY(m), m)

(* sum_{j<=m} (y_j - mean_j)^2, each term centred on its own running mean *)
RECURSIVE OnlineSS(_)
OnlineSS(m) ==
    IF m = 0 THEN Zero
    ELSE RAdd(OnlineSS(m - 1), RSq(RSub(FromInt(Y(m)), RefMean(m))))

RefOnlineVar(m) == RDiv(OnlineSS(m), FromInt(m))

(* sum_{j<=m} (y_j - c)^2 for one centre c *)
RECURSIVE TwoPassSS(_, _)
TwoPassSS(m, c) ==
    IF m = 0 THEN Zero
    ELSE RAdd(TwoPassSS(m - 1, c), RSq(RSub(FromInt(Y(m)), c)))

(* V_n = (1/n) sum_{j<=n} (y_j - I_n)^2 *)
RefTwoPassVar(m) == RDiv(TwoPassSS(m, RefMean(m)), FromInt(m))

Written(a, j) == j \in DOMAIN writes[a] /\ writes[a][j] > 0

Running == cell = "mc" /\ k > 0

----------------------------------------------------------------------------
(* C1: the n-th trajectory entry (index n-1) has mean_n = (y_1+...+y_n)/n
   and var_n = (1/n) * sum_{j<=n} (y_j - mean_j)^2, each increment centred
   on the running mean just after y_j was added.                          *)
C1_RunningMeanVar ==
    Running =>
        /\ \A j \in DOMAIN I :
              /\ Written("I", j) => I[j] = RefMean(j + 1)
              /\ Written("V", j) => V[j] = RefOnlineVar(j + 1)
        /\ \A r \in 1 .. NumRuns : traj[r].returned =>
              \A j \in DOMAIN traj[r].I :
                 /\ traj[r].I[j] = RefMean(j + 1)
                 /\ traj[r].V[j] = RefOnlineVar(j + 1)

(* a returned run of three samples whose means and variances all differ *)
C1_Witness ==
    /\ pc = "returned" /\ max_n = 3
    /\ traj[k].I[0] # traj[k].I[1] /\ traj[k].I[1] # traj[k].I[2]
    /\ traj[k].V[1] # Zero /\ traj[k].V[1] # traj[k].V[2]
    /\ traj[k].V[2] # RefTwoPassVar(3)

(* C3: V_n as the handout defines it, the mean squared deviation of the
   first n values from the n-sample mean I_n.                            *)
C3_VarianceIsTwoPass ==
    Running =>
        \A j \in DOMAIN V : Written("V", j) => V[j] = RefTwoPassVar(j + 1)

(* C4: prefix determinism: two runs over the same stream agree at every
   index both of them produced, whatever their max_n.                    *)
C4_PrefixDeterminism ==
    /\ \A r1, r2 \in 1 .. NumRuns :
          (traj[r1].returned /\ traj[r2].returned) =>
             \A j \in (DOMAIN traj[r1].I) \cap (DOMAIN traj[r2].I) :
                /\ traj[r1].I[j] = traj[r2].I[j]
                /\ traj[r1].V[j] = traj[r2].V[j]
    /\ \A r \in 1 .. NumRuns :
          (Running /\ r < k /\ traj[r].returned) =>
             \A j \in (DOMAIN I) \cap (DOMAIN traj[r].I) :
                /\ Written("I", j) => I[j] = traj[r].I[j]
                /\ Written("V", j) => V[j] = traj[r].V[j]

(* a run of three samples followed by a returned run of two, on a stream
   whose third value moves the mean *)
C4_Witness ==
    /\ k = 2 /\ pc = "returned"
    /\ traj[1].returned /\ traj[2].returned
    /\ shape(traj[1].I) = 3 /\ shape(traj[2].I) = 2
    /\ traj[1].I[2] # traj[1].I[1]
    /\ traj[2].V[1] # Zero

----------------------------------------------------------------------------
(* The documented expansion (markdown above g), in units of sqrt(2)/pi:
   phi_i(x) = sigma / (i - 1/2) * sin((i - 1/2) pi x),  i = 1, 2, ...     *)
phi(i1, pt, sg) ==
    RMul(RDiv(FromInt(sg), RSub(FromInt(i1), Half)),
         SinPi(RMul(RSub(FromInt(i1), Half), pt)))

(* sum_{i=1..m} xi_i * phi_i(x), xi_i being the array element xi[i-1] *)
RECURSIVE KLSum(_, _, _, _)
KLSum(pt, coef, sg, m) ==
    IF m = 0 THEN Zero
    ELSE RAdd(KLSum(pt, coef, sg, m - 1),
              RMul(FromInt(coef[m - 1]), phi(m, pt, sg)))

(* C2: g returns sum_{i=1..d} xi_i * phi_i(x_k): the i-th coefficient
   multiplies the mode of frequency (i - 0.5) pi, the d coefficients using
   the d distinct modes 0.5 pi, ..., (d - 0.5) pi once each.              *)
C2_FieldIsDocumentedSum ==
    (cell = "field" /\ gpc = "returned" /\ shape(xi) >= 1 /\ sigma > 0) =>
        /\ ~g_ret.raised
        /\ DOMAIN g_ret.value = DOMAIN gx
        /\ \A j \in DOMAIN gx :
              g_ret.value[j] = KLSum(gx[j], xi, sigma, shape(xi))

----------------------------------------------------------------------------
(* iterations of the loop body that ran to their end *)
IterationsDone ==
    IF pc \in {"sample", "eval", "sum", "mean", "s2", "var", "raised"}
       THEN range_it - 1
       ELSE range_it

C5_State ==
    Running =>
        /\ DOMAIN I = 0 .. (max_n - 1)
        /\ DOMAIN V = 0 .. (max_n - 1)
        /\ \A j \in DOMAIN V :
              /\ Written("V", j) <=> j < IterationsDone
              /\ Written("I", j) <=>
                    (j < IterationsDone \/ (j = n /\ pc \in {"s2", "var"}))
              /\ writes["I"][j] <= 1 /\ writes["V"][j] <= 1
              /\ IsNumber(I[j]) <=> Written("I", j)
              /\ IsNumber(V[j]) <=> Written("V", j)
        /\ pc \in {"returned", "plotted"} =>
              /\ traj[k] = [returned |-> TRUE, I |-> I, V |-> V]
              /\ DOMAIN traj[k].I = 0 .. (max_n - 1)
              /\ DOMAIN traj[k].V = 0 .. (max_n - 1)
              /\ \A j \in 0 .. (max_n - 1) :
                    IsNumber(traj[k].I[j]) /\ IsNumber(traj[k].V[j])

C5_Step ==
    /\ k' = k =>
          \A j \in DOMAIN I :
             /\ Written("I", j) => I'[j] = I[j]
             /\ Written("V", j) => V'[j] = V[j]
    /\ \A r \in 1 .. NumRuns : traj[r].returned => traj'[r] = traj[r]

(* C5: the trajectory is append-only, one entry per sample consumed: after
   k iterations exactly the entries 0..k-1 of I and V are written, each
   written once and never modified later, and the returned trajectory
   holds exactly max_n (mean, var) pairs.                                 *)
C5_AppendOnly == [](C5_State) /\ [][C5_Step]_vars

(* third iteration under way: two entries complete, I[2] just stored *)
C5_Witness ==
    /\ pc = "var" /\ n = 2 /\ max_n = 3
    /\ Written("I", 2) /\ ~Written("V", 2) /\ Written("V", 1)

(* C6: max_n = 0 returns an empty trajectory, raises nothing and calls
   neither the sampler nor the objective.                                 *)
C6_EmptyRun ==
    (Running /\ max_n = 0) =>
        /\ pc # "raised" /\ exc = NoExc
        /\ sampler_calls = 0 /\ func_calls = 0
        /\ pc \in {"returned", "plotted"} =>
              /\ traj[k].returned
              /\ traj[k].I = <<>> /\ traj[k].V = <<>>

C6_Witness == Running /\ pc = "returned" /\ max_n = 0 /\ traj[k].returned

IsConstant(c) == \A j \in DOMAIN func : func[j] = Returns(c)

(* C7: for an objective returning the same c for every input, every
   entry has mean_n = c and var_n = 0.                                    *)
C7_ConstantObjective ==
    Running =>
        \A c \in YValues : IsConstant(c) =>
            /\ \A j \in DOMAIN I :
                  /\ Written("I", j) => I[j] = FromInt(c)
                  /\ Written("V", j) => V[j] = Zero
            /\ pc \in {"returned", "plotted"} =>
                  \A j \in DOMAIN traj[k].I :
                     traj[k].I[j] = FromInt(c) /\ traj[k].V[j] = Zero

C7_Witness ==
    /\ Running /\ pc = "returned" /\ max_n = 3
    /\ IsConstant(2) /\ shape(traj[k].I) = 3

(* C8: at every index the band is (mean_n - h, mean_n + h) with h >= 0 and
   h^2 * n = 4 * var_n, n the 1-based sample count; it is symmetric about
   mean_n, lower <= mean_n <= upper, and n = 0 is never used.             *)
C8_Band ==
    (Running /\ pc = "plotted") =>
        /\ DOMAIN all_ns = 0 .. (max_n - 1)
        /\ DOMAIN l = 0 .. (max_n - 1)
        /\ DOMAIN u = 0 .. (max_n - 1)
        /\ \A j \in DOMAIN l :
              LET hw == [c |-> u[j].c, r |-> u[j].r]
              IN  /\ all_ns[j] = j + 1
                  /\ l[j].a = traj[k].I[j]
                  /\ u[j].a = traj[k].I[j]
                  /\ l[j].c = RNeg(hw.c) /\ l[j].r = hw.r
                  /\ RLeq(Zero, hw.c) /\ RLeq(Zero, hw.r)
                  /\ RMul(SurdSq(hw), FromInt(j + 1)) =
                        RMul(FromInt(4), traj[k].V[j])

C8_Witness ==
    /\ Running /\ pc = "plotted" /\ max_n = 3
    /\ traj[k].V[1] # Zero /\ traj[k].V[2] # Zero
    /\ SurdSq([c |-> u[2].c, r |-> u[2].r]) # Zero

(* C9 as stated: g rejects d = 0 or sigma <= 0 with InvalidParameter and
   returns no field values.                                               *)
C9_RejectsInvalid ==
    (cell = "field" /\ gpc = "returned" /\ (shape(xi) = 0 \/ sigma <= 0)) =>
        /\ g_ret.raised
        /\ g_ret.error = "InvalidParameter"
        /\ g_ret.value = <<>>

Negated(vals) == [j \in DOMAIN vals |-> RNeg(vals[j])]

(* C9 amended: g validates nothing and never fails: for d = 0 and for
   sigma = 0 it returns the zero field, one value per evaluation point,
   and for sigma < 0 the negated field of -sigma.                         *)
C9_NoValidation ==
    (cell = "field" /\ gpc = "returned" /\ (shape(xi) = 0 \/ sigma <= 0)) =>
        /\ ~g_ret.raised
        /\ g_ret.error = NoExc
        /\ DOMAIN g_ret.value = DOMAIN gx
        /\ (shape(xi) = 0 \/ sigma = 0) => g_ret.value = zeros(shape(gx))
        /\ sigma < 0 =>
              g_ret.value = Negated(gLoop(gx, xi, -sigma, zeros(shape(gx)), 0))

C9_Witness ==
    /\ cell = "field" /\ gpc = "returned"
    /\ sigma < 0 /\ shape(xi) = 2 /\ shape(gx) = 3
    /\ g_ret.value # zeros(shape(gx))

(* C10 as stated: when the objective fails on the k-th sample the failure
   propagates unchanged, no further sample is drawn, and the caller has
   the k-1 entries already produced.                                      *)
C10_PartialTrajectoryUsable ==
    (Running /\ pc = "raised") =>
        /\ exc = func[x].error
        /\ sampler_calls = n + 1
        /\ traj[k].returned
        /\ DOMAIN traj[k].I = 0 .. (n - 1)
        /\ \A j \in 0 .. (n - 1) :
              traj[k].I[j] = I[j] /\ traj[k].V[j] = V[j]

(* C10 amended: the failure propagates unchanged and the run stops with
   exactly k samples drawn; the k-1 entries computed so far are correct in
   the local arrays, but nothing is handed to the caller.                 *)
C10_FailurePropagates ==
    (Running /\ pc = "raised") =>
        /\ func[x].raises
        /\ exc = func[x].error
        /\ x = n + 1
        /\ sampler_calls = n + 1 /\ func_calls = n + 1 /\ rng = n + 1
        /\ \A j \in DOMAIN I :
              IF j < n
                 THEN /\ I[j] = RefMean(j + 1)
                      /\ V[j] = RefOnlineVar(j + 1)
                 ELSE ~Written("I", j) /\ ~Written("V", j)
        /\ traj[k] = NoTraj

(* the objective fails on the third sample of a run of three *)
C10_Witness ==
    /\ Running /\ pc = "raised" /\ n = 2 /\ max_n = 3
    /\ exc = "SolverDiverged"
    /\ I[1] # I[0]

----------------------------------------------------------------------------
(* Counting the realizations of the batch at position j *)

Summarised == cell = "summary" /\ spc = "done"

NotAbove(j, v) == Cardinality({r \in DOMAIN data : RLeq(FromInt(data[r][j]), v)})
Below(j, v) == Cardinality({r \in DOMAIN data : ~RLeq(v, FromInt(data[r][j]))})
Above(j, v) == Cardinality({r \in DOMAIN data : ~RLeq(FromInt(data[r][j]), v)})

(* the least integer not below a *)
Ceil(a) == -((-a[1]) \div a[2])

(* C11 as stated: at most q% of the k realizations at position j are <= the
   value returned for the q-th percentile.                                *)
C11_AtMostQPercentNotAbove ==
    Summarised =>
        \A j \in DOMAIN mu_q :
            RLeq(FromInt(100 * NotAbove(j, mu_q[j])),
                 RMul(pct, FromInt(shape(data))))

(* C11 amended: the value returned lies within the batch, with at most
   ceil((k-1) q/100) realizations strictly below it and at most
   ceil((k-1) (100-q)/100) strictly above it.                             *)
C11_RankBounds ==
    Summarised =>
        \A j \in DOMAIN data[0] :
            /\ j \in DOMAIN mu_q
            /\ Below(j, mu_q[j]) <=
                  Ceil(RDiv(RMul(FromInt(shape(data) - 1), pct), FromInt(100)))
            /\ Above(j, mu_q[j]) <=
                  Ceil(RDiv(RMul(FromInt(shape(data) - 1),
                                 RSub(FromInt(100), pct)), FromInt(100)))
            /\ \E r \in DOMAIN data : RLeq(FromInt(data[r][j]), mu_q[j])
            /\ \E r \in DOMAIN data : RLeq(mu_q[j], FromInt(data[r][j]))

(* three distinct values at position 0, the 40th percentile falling
   strictly between two of them *)
C11_Witness ==
    /\ Summarised /\ shape(data) = 3 /\ pct = FromInt(40)
    /\ {data[r][0] : r \in DOMAIN data} = {0, 1, 3}
    /\ data[0][0] = 3
    /\ \A r \in DOMAIN data : FromInt(data[r][0]) # mu_q[0]

(* the value at the middle rank of position j, for a batch of odd size *)
IsMiddle(j, v) ==
    /\ \E r \in DOMAIN data : FromInt(data[r][j]) = v
    /\ 2 * Below(j, v) <= shape(data) - 1
    /\ 2 * Above(j, v) <= shape(data) - 1

(* C12: percentiles are taken position by position: where all realizations
   agree on c, the median and every percentile are c whatever the other
   positions hold; for an odd batch the 50th percentile is the middle
   order statistic, 3 for 1, 2, 3, 4, 5.                                  *)
C12_PositionwisePercentiles ==
    Summarised =>
        /\ DOMAIN mu = DOMAIN data[0] /\ DOMAIN mu_q = DOMAIN data[0]
        /\ \A j \in DOMAIN data[0] :
              /\ (\A r \in DOMAIN data : data[r][j] = data[0][j]) =>
                    /\ mu[j] = FromInt(data[0][j])
                    /\ mu_q[j] = FromInt(data[0][j])
              /\ shape(data) % 2 = 1 =>
                    /\ IsMiddle(j, mu[j])
                    /\ pct = FromInt(50) => IsMiddle(j, mu_q[j])
        /\ data = ExampleBatch =>
              /\ mu[0] = FromInt(3)
              /\ pct = FromInt(50) => mu_q[0] = FromInt(3)

(* a position where all three realizations agree beside one where they
   differ, asked for the 97.5th percentile *)
C12_Witness ==
    /\ Summarised /\ shape(data) = 3 /\ pct = Rat(195, 2)
    /\ \A r \in DOMAIN data : data[r][0] = 1
    /\ {data[r][1] : r \in DOMAIN data} = {0, 1, 3}
    /\ mu_q[0] = FromInt(1) /\ mu_q[1] # FromInt(1)

----------------------------------------------------------------------------
(* a * v1 + b * v2, element by element *)
Combination(a, v1, b, v2) == [c \in DOMAIN v1 |-> a * v1[c] + b * v2[c]]

Scalars == {-1, 0, 2}

FieldReturned == cell = "field" /\ gpc = "returned"

(* C13: g is linear in the coefficient vector:
   g(x, a*xi1 + b*xi2) = a*g(x, xi1) + b*g(x, xi2).                       *)
C13_Linear ==
    FieldReturned =>
        \A xi2 \in [DOMAIN xi -> XiValues] : \A a, b \in Scalars :
            LET both   == g(gx, Combination(a, xi, b, xi2), sigma)
                second == g(gx, xi2, sigma)
            IN  /\ ~g_ret.raised /\ ~both.raised /\ ~second.raised
                /\ DOMAIN both.value = DOMAIN gx
                /\ \A j \in DOMAIN gx :
                      both.value[j] =
                         RAdd(RMul(FromInt(a), g_ret.value[j]),
                              RMul(FromInt(b), second.value[j]))

(* three non-zero coefficients, a field that is not zero everywhere *)
C13_Witness ==
    /\ FieldReturned /\ shape(xi) = 3 /\ sigma = 2 /\ shape(gx) = 3
    /\ \A c \in DOMAIN xi : xi[c] # 0
    /\ \E j \in DOMAIN gx : g_ret.value[j] # Zero

(* C14: for xi all zero, g returns 0 at every evaluation point, for any d
   and sigma, one value per evaluation point.                             *)
C14_ZeroField ==
    (FieldReturned /\ \A c \in DOMAIN xi : xi[c] = 0) =>
        /\ ~g_ret.raised
        /\ DOMAIN g_ret.value = DOMAIN gx
        /\ \A j \in DOMAIN gx : g_ret.value[j] = Zero

C14_Witness ==
    /\ FieldReturned /\ shape(xi) = 3 /\ sigma = 2 /\ shape(gx) = 3
    /\ \A c \in DOMAIN xi : xi[c] = 0
    /\ g_ret.value = zeros(3)

----------------------------------------------------------------------------
(* The indicator of [0.8, infinity) the last cell asks h to be *)
Threshold == Rat(4, 5)

Indicator(T) == IF RLeq(Threshold, FromInt(T)) THEN 1 ELSE 0

RECURSIVE Exceeding(_)
Exceeding(m) == IF m = 0 THEN 0 ELSE Exceeding(m - 1) + Indicator(Y(m))

(* C15: run through get_mc_estimate with the indicator objective h, the
   running mean I_n is the fraction of the first n samples whose T(x=0.5)
   exceeds the threshold (1 when all do, 0 when none does), and only a
   failure of the solver can end the run early.                           *)
C15_ExceedanceFraction ==
    (cell = "exceed" /\ k > 0) =>
        /\ pc = "raised" => exc \in Failures
        /\ pc \in {"mean", "s2", "var"} => s = FromInt(Exceeding(n + 1))
        /\ \A j \in DOMAIN I :
              Written("I", j) => I[j] = Rat(Exceeding(j + 1), j + 1)
----------------------------------------------------------------------------
(* the order of the statements of get_mc_estimate, as pairs of positions *)
Order ==
    {<<"for", "sample">>, <<"sample", "eval">>, <<"eval", "sum">>,
     <<"eval", "raised">>, <<"sum", "mean">>, <<"mean", "s2">>,
     <<"s2", "var">>, <<"var", "for">>, <<"for", "return">>,
     <<"return", "returned">>, <<"returned", "plotted">>}

(* entries 0 .. m-1 of both arrays are recorded *)
Recorded(m) == \A j \in 0 .. (m - 1) : Written("I", j) /\ Written("V", j)

C16_State ==
    Running =>
        /\ pc = "sample" =>
              /\ sampler_calls = n /\ func_calls = n /\ rng = n
              /\ Recorded(n)
              /\ s = FromInt(SumY(n)) /\ s2 = OnlineSS(n)
        /\ pc = "eval" =>
              /\ sampler_calls = n + 1 /\ func_calls = n
              /\ x = n + 1
              /\ s = FromInt(SumY(n)) /\ s2 = OnlineSS(n)
        /\ pc = "sum" =>
              /\ sampler_calls = n + 1 /\ func_calls = n + 1
              /\ x = n + 1 /\ y = FromInt(Y(n + 1))
              /\ s = FromInt(SumY(n)) /\ ~Written("I", n)
        /\ pc = "mean" =>
              /\ s = FromInt(SumY(n + 1)) /\ ~Written("I", n)
              /\ s2 = OnlineSS(n)
        /\ pc = "s2" =>
              /\ Written("I", n) /\ ~Written("V", n)
              /\ s2 = OnlineSS(n)
        /\ pc = "var" =>
              /\ s2 = OnlineSS(n + 1) /\ ~Written("V", n)
        /\ pc \in {"mean", "s2", "var"} =>
              /\ sampler_calls = n + 1 /\ func_calls = n + 1
        /\ pc = "for" =>
              /\ sampler_calls = range_it /\ func_calls = range_it
              /\ Recorded(range_it)
        /\ pc \in {"return", "returned", "plotted"} =>
              /\ sampler_calls = max_n /\ func_calls = max_n

C16_Step ==
    (cell = "mc" /\ k' = k) =>
        /\ <<pc, pc'>> \in Order
        /\ sampler_calls' # sampler_calls =>
              /\ pc = "sample" /\ sampler_calls' = sampler_calls + 1
              /\ Recorded(n)
        /\ func_calls' # func_calls =>
              /\ pc = "eval" /\ func_calls' = func_calls + 1

(* C16: in each iteration the sample is drawn, the objective evaluated on
   it, the sum updated, the mean recorded, the centred sum of squares
   updated and the variance recorded, in that order and before the next
   draw; sampler and objective are called once per iteration, max_n times
   each in a run that returns, and the values are accumulated in the
   order their samples were drawn.                                       *)
C16_IterationOrder == [](C16_State) /\ [][C16_Step]_vars

(* a returned run of three draws whose objective values differ in turn *)
C16_Witness ==
    /\ Running /\ pc = "returned" /\ max_n = 3
    /\ sampler_calls = 3 /\ func_calls = 3
    /\ Y(1) # Y(2) /\ Y(2) # Y(3)
----------------------------------------------------------------------------
(* the squared half-width of the band built from the documented V_n *)
DocumentedWidthSq(m) == RDiv(RMul(FromInt(4), RefTwoPassVar(m)), FromInt(m))

(* C17: every recorded var_n is non-negative and at most the two-pass
   population variance of the same n values, and so the plotted band is
   at no n wider than the band built from the documented V_n.            *)
C17_VarianceBounded ==
    Running =>
        /\ \A j \in DOMAIN V : Written("V", j) =>
              /\ RLeq(Zero, V[j])
              /\ RLeq(V[j], RefTwoPassVar(j + 1))
        /\ pc = "plotted" =>
              \A j \in DOMAIN u :
                 LET width == [c |-> u[j].c, r |-> u[j].r]
                 IN  /\ RLeq(Zero, width.c) /\ RLeq(Zero, width.r)
                     /\ RLeq(SurdSq(width), DocumentedWidthSq(j + 1))

(* a plotted run whose last variance is positive and strictly below the
   two-pass variance, so the plotted band is strictly narrower there *)
C17_Witness ==
    /\ Running /\ pc = "plotted" /\ max_n = 3
    /\ V[2] # Zero /\ V[2] # RefTwoPassVar(3)
    /\ SurdSq([c |-> u[2].c, r |-> u[2].r]) # DocumentedWidthSq(3)
----------------------------------------------------------------------------
(* C18: after the first observation mean_1 = y_1 and var_1 = 0, whatever
   y_1 is, and the band at n = 1 is the single point [mean_1, mean_1].   *)
C18_FirstObservation ==
    Running =>
        /\ Written("I", 0) => I[0] = FromInt(Y(1))
        /\ Written("V", 0) => V[0] = Zero
        /\ \A r \in 1 .. NumRuns :
              (traj[r].returned /\ 0 \in DOMAIN traj[r].I) =>
                  /\ traj[r].I[0] = FromInt(Y(1))
                  /\ traj[r].V[0] = Zero
        /\ (pc = "plotted" /\ max_n >= 1) =>
              /\ all_ns[0] = 1
              /\ l[0].a = FromInt(Y(1)) /\ u[0].a = FromInt(Y(1))
              /\ SurdSq([c |-> l[0].c, r |-> l[0].r]) = Zero
              /\ SurdSq([c |-> u[0].c, r |-> u[0].r]) = Zero

(* a plotted run with a non-zero first value whose band is a point at
   n = 1 and an interval at n = 2 *)
C18_Witness ==
    /\ Running /\ pc = "plotted" /\ max_n >= 2
    /\ Y(1) # 0 /\ I[0] = FromInt(Y(1)) /\ V[0] = Zero
    /\ SurdSq([c |-> u[0].c, r |-> u[0].r]) = Zero
    /\ SurdSq([c |-> u[1].c, r |-> u[1].r]) # Zero

====
